---------------------------- MODULE Spec2Model ----------------------------
(***************************************************************************)
(* Model of src/src/util/testing-utils.ts: the RedisMock store and lease   *)
(* table, its command chain, the virtual-clock drivers, the TestAdapter    *)
(* orchestrator, the TestMetrics parser and makeStub.                      *)
(***************************************************************************)
EXTENDS Integers, Sequences, FiniteSets, TLC

VARIABLES
  store,      \* RedisMock.store: the LocalCache, store key -> entry
  keys,       \* RedisMock.keys: the own properties of the lease object
  last,       \* the last RedisMock call and what it returned or threw
  granted,    \* history: the (resourceKey, holderToken) pairs evalsha answered 1
  rnow,       \* the time the LocalCache reads when it stamps and expires entries
  cfg,        \* the driver called and the scripts of the system under test
  pos,        \* task -> the next step of its script
  cyc,        \* task -> the cycles of its script it has left
  writes,     \* what the system under test has written so far
  now,        \* clock.now
  timers,     \* the clock's pending timers
  nextId,     \* the id the next timer gets
  microQ,     \* the promise jobs waiting to run
  clk,        \* the nextAsync or tickAsync call in progress
  pc,         \* where the driver is
  i,          \* the loop variable of runPeriodicAsyncBackgroundExecution
  result,     \* `result` of waitUntilResolved
  ret,        \* what waitUntilResolved returned
  fnState,    \* the promise of fn(): pending, fulfil or reject
  fnStarts,   \* history: calls of fn
  nextCalls,  \* history: calls of clock.nextAsync
  tickCalls,  \* history: calls of clock.tickAsync
  svCalls,    \* history: calls of isComplete / stepValidation
  validated,  \* history: the iterations whose stepValidation returned true
  fired,      \* history: timers fired
  entry,      \* history: the state runAllUntil was entered in
  sat,        \* history: the calls and firings when the predicate became true
  targetTime, \* `targetTime` of runAllUntilTime
  err,        \* what the TestAdapter method threw, if it threw
  promises,   \* CommandChainMock.promises
  applied,    \* history: the writes the store took through the chain, in order
  execRes,    \* what exec() resolved with
  sample,     \* the sample the first line of `data` is the text of
  data,       \* the metrics text handed to new TestMetrics(data), line by line
  map,        \* TestMetrics.map; NoMap until the constructor has run
  got,        \* the last TestMetrics.get: its arguments and what it did
  failures,   \* the messages t.fail recorded on the test context
  heap,       \* the objects makeStub is given: id -> own properties
  root,       \* the value handed to makeStub
  cur,        \* what makeStub or the last read through the stub returned
  path,       \* history: the properties read since makeStub was called
  stubErr,    \* the message of the Error the last read threw, if it threw
  mcache,     \* the LocalCache a MockCache extends: cache key -> entry
  awaitingPromiseResolve, \* MockCache's resolver: the promise it resolves
  waiters,    \* the promises waitForNextSet returned, in the order of the calls
  sets        \* history: the set calls made on the MockCache, in order

redisVars == <<store, keys, last, granted, rnow>>

clockVars ==
  <<cfg, pos, cyc, writes, now, timers, nextId, microQ, clk, pc, i, result,
    ret, fnState, fnStarts, nextCalls, tickCalls, svCalls, validated, fired,
    entry, sat, targetTime, err>>

adapterVars == <<targetTime, err>>

chainVars == <<promises, applied, execRes>>

metricsVars == <<sample, data, map, got, failures>>

stubVars == <<heap, root, cur, path, stubErr>>

cacheVars == <<mcache, awaitingPromiseResolve, waiters, sets>>

pureVars == <<metricsVars, stubVars, cacheVars>>

\* what the drivers and the clock never touch
restVars == <<redisVars, chainVars, pureVars>>

vars == <<redisVars, clockVars, chainVars, pureVars>>

-----------------------------------------------------------------------------
(* Bounds of the model.                                                    *)

MaxNow == 1

MaxFnLen == 2

MaxCycles == 2

MaxTarget == 3

MaxTimes == 2

MaxCalls == 12

MaxTime == 3

MaxExpected == 2

MaxChain == 3

MaxLabels == 3

MaxGets == 1

\* the calls of waitForNextSet and of set made on one MockCache
MaxWaits == 3

MaxSets == 3

-----------------------------------------------------------------------------
(* Strings the code inspects are sequences of characters.                  *)

\* 'force-error', the substring RedisMock.set looks for
ForceError == <<"f", "o", "r", "c", "e", "-", "e", "r", "r", "o", "r">>

\* a check of the start of the key only
Includes_StartsWith(s, sub) ==
  Len(s) >= Len(sub) /\ SubSeq(s, 1, Len(sub)) = sub

\* key.includes(sub)
Includes(s, sub) ==
  \E off \in 0..(Len(s) - Len(sub)) : SubSeq(s, off + 1, off + Len(sub)) = sub

\* 'k', 'force', 'force-error' and 'a-force-error-key'
PlainKey == <<"k">>

NearMissKey == <<"f", "o", "r", "c", "e">>

ForceErrorKey == <<"f", "o", "r", "c", "e", "-", "e", "r", "r", "o", "r">>

ForceErrorInsideKey ==
  << "a", "-", "f", "o", "r", "c", "e", "-", "e", "r", "r", "o", "r",
     "-", "k", "e", "y" >>

StoreKeys == {PlainKey, NearMissKey, ForceErrorKey, ForceErrorInsideKey}

Values == {"v1", "v2"}

Ttls == {1, 2}

ResourceKeys == {"lockA", "lockB", "toString"}

HolderTokens == {"h1", "h2"}

Undefined == "undefined"

\* what a property read finds on Object.prototype: a function, never a string
Inherited == "inherited"

\* the property names every `{}` inherits from Object.prototype
ObjectPrototypeProps ==
  { "constructor", "hasOwnProperty", "isPrototypeOf", "propertyIsEnumerable",
    "toLocaleString", "toString", "valueOf", "__proto__",
    "__defineGetter__", "__defineSetter__", "__lookupGetter__",
    "__lookupSetter__" }

\* this.keys[p]: an own property, else what the prototype chain holds
KeysLookup(obj, p) ==
  IF p \in DOMAIN obj THEN obj[p]
  ELSE IF p \in ObjectPrototypeProps THEN Inherited
  ELSE Undefined

\* this.keys[p] = v
KeysAssign(obj, p, v) == (p :> v) @@ obj

-----------------------------------------------------------------------------
(* LocalCache: set stamps the entry with its expiry, get and delete read   *)
(* the entry, and the cache evicts an entry whose expiry has passed.       *)

Absent == [value |-> Undefined, expiry |-> 0]

LocalCacheSet(c, k, v, ttl, t) == [c EXCEPT ![k] = [value |-> v, expiry |-> t + ttl]]

LocalCacheGet(c, k) == c[k].value

LocalCacheDelete(c, k) == [c EXCEPT ![k] = Absent]

LocalCacheSize(c) == Cardinality({k \in DOMAIN c : c[k] # Absent})

\* `n` tells two successive calls apart when they are the same call
NoCall == [n |-> 0, op |-> "none", rkey |-> "", skey |-> <<>>, arg |-> "", res |-> ""]

Call(op, rkey, skey, arg, res) ==
  [n |-> 1 - last.n, op |-> op, rkey |-> rkey, skey |-> skey, arg |-> arg, res |-> res]

InitStore ==
  /\ store = [k \in StoreKeys |-> Absent]
  /\ keys = <<>>
  /\ last = NoCall
  /\ granted = {}
  /\ rnow = 0

\* TestMetrics before its constructor has run
NoMap == [constructed |-> FALSE, threw |-> FALSE, entries |-> <<>>]

\* no lookup has been made
NoGet == [n |-> 0, name |-> <<>>, labels |-> <<>>, key |-> <<>>,
          found |-> FALSE, metric |-> 0, listed |-> {}]

NoSample == [name |-> <<>>, labels |-> <<>>, value |-> <<>>]

\* exec() has not been called
NoExec == [resolved |-> FALSE, results |-> <<>>]

\* no chain has been asked for yet
InitChain ==
  /\ promises = <<>>
  /\ applied = <<>>
  /\ execRes = NoExec

\* RedisMock.get
RedisGet(key) ==
  /\ last' = Call("get", "", key, "", LocalCacheGet(store, key))
  /\ UNCHANGED <<store, keys, granted, rnow, clockVars, chainVars, pureVars>>

\* RedisMock.del
RedisDel(key) ==
  /\ store' = LocalCacheDelete(store, key)
  /\ last' = Call("del", "", key, "", IF store[key] # Absent THEN "true" ELSE "false")
  /\ UNCHANGED <<keys, granted, rnow, clockVars, chainVars, pureVars>>

\* RedisMock.set, under the name it was called by
RedisSetAs(op, key, value, ttl) ==
  /\ IF Includes(key, ForceError)
       THEN /\ last' = Call(op, "", key, value, "throw")
            /\ UNCHANGED store
       ELSE /\ store' = LocalCacheSet(store, key, value, ttl, rnow)
            /\ last' = Call(op, "", key, value, "ok")
  /\ UNCHANGED <<keys, granted, rnow, clockVars, pureVars>>

RedisSet(key, value, ttl) ==
  RedisSetAs("set", key, value, ttl) /\ UNCHANGED chainVars

\* RedisMock.setExternalAdapterResponse
RedisSetExternalAdapterResponse(key, value, ttl) ==
  /\ RedisSetAs("setExternalAdapterResponse", key, value, ttl)
  /\ UNCHANGED chainVars

\* RedisMock.multi: a new CommandChainMock, the mock itself untouched
RedisMulti ==
  /\ last' = Call("multi", "", <<>>, "", "chain")
  /\ promises' = <<>>
  /\ applied' = <<>>
  /\ execRes' = NoExec
  /\ UNCHANGED <<store, keys, granted, rnow, clockVars, pureVars>>

\* RedisMock.defineCommand, pexpire and quit return without doing anything
RedisNoOp(op) ==
  /\ last' = Call(op, "", <<>>, "", Undefined)
  /\ UNCHANGED <<store, keys, granted, rnow, clockVars, chainVars, pureVars>>

\* the value RedisMock.evalsha returns
EvalshaResult(obj, redlockKey, instanceKey) ==
  IF KeysLookup(obj, redlockKey) = instanceKey THEN 1
  ELSE IF KeysLookup(obj, redlockKey) = Undefined THEN 1
  ELSE 0

\* an evalsha that lets the caller take over a held key
EvalshaKeys_TakeOver(obj, redlockKey, instanceKey) ==
  IF KeysLookup(obj, redlockKey) = instanceKey THEN obj
  ELSE KeysAssign(obj, redlockKey, instanceKey)

\* an evalsha whose acquisition replaces the whole table
EvalshaKeys_Reset(obj, redlockKey, instanceKey) ==
  IF KeysLookup(obj, redlockKey) = instanceKey THEN obj
  ELSE IF KeysLookup(obj, redlockKey) = Undefined
    THEN (redlockKey :> instanceKey)
  ELSE obj

\* the lease object RedisMock.evalsha leaves
EvalshaKeys(obj, redlockKey, instanceKey) ==
  IF KeysLookup(obj, redlockKey) = instanceKey THEN obj
  ELSE IF KeysLookup(obj, redlockKey) = Undefined
    THEN KeysAssign(obj, redlockKey, instanceKey)
  ELSE obj

\* RedisMock.evalsha(sha, numberOfKeys, [redlockKey, instanceKey, ttl])
RedisEvalsha(redlockKey, instanceKey, ttl) ==
  /\ keys' = EvalshaKeys(keys, redlockKey, instanceKey)
  /\ last' = Call("evalsha", redlockKey, <<>>, instanceKey,
                  EvalshaResult(keys, redlockKey, instanceKey))
  /\ granted' = IF EvalshaResult(keys, redlockKey, instanceKey) = 1
                  THEN granted \cup {<<redlockKey, instanceKey>>}
                  ELSE granted
  /\ UNCHANGED <<store, rnow, clockVars, chainVars, pureVars>>

\* virtual time passes
RedisTick ==
  /\ rnow < MaxNow
  /\ rnow' = rnow + 1
  /\ UNCHANGED <<store, keys, last, granted, clockVars, chainVars, pureVars>>

\* the LocalCache drops an entry whose expiry has passed
LocalCacheEvict(key) ==
  /\ store[key] # Absent
  /\ store[key].expiry <= rnow
  /\ store' = LocalCacheDelete(store, key)
  /\ UNCHANGED <<keys, last, granted, rnow, clockVars, chainVars, pureVars>>

-----------------------------------------------------------------------------
(* CommandChainMock: each command is handed to the RedisMock when it is    *)
(* queued, and the promise it returns is kept for exec().                  *)

\* the promise redisMock.set returned for a command: it fulfils with what
\* LocalCache.set fulfils with
Promise(op, key, value) ==
  [op |-> op, key |-> key, value |-> value, res |-> Undefined]

\* a chain method that only queues the command, for exec() to run it
ChainSetAs_Deferred(op, key, value, ttl) ==
  /\ Len(promises) < MaxChain
  /\ last' = Call(op, "", key, value, "ok")
  /\ promises' = Append(promises, Promise(op, key, value))
  /\ UNCHANGED <<store, keys, granted, rnow, clockVars, pureVars, applied,
                 execRes>>

\* a chain method: this.promises.push(this.redisMock.<op>(...)); the push
\* is not reached when the call throws
ChainSetAs(op, key, value, ttl) ==
  /\ Len(promises) < MaxChain
  /\ RedisSetAs(op, key, value, ttl)
  /\ IF Includes(key, ForceError)
       THEN UNCHANGED promises
       ELSE promises' = Append(promises, Promise(op, key, value))
  /\ applied' = IF store' # store \/ last'.res = "ok"
                  THEN Append(applied, [key |-> key, value |-> value])
                  ELSE applied
  /\ UNCHANGED execRes

\* CommandChainMock.set
ChainSet(key, value, ttl) == ChainSetAs("set", key, value, ttl)

\* CommandChainMock.setExternalAdapterResponse
ChainSetExternalAdapterResponse(key, value, ttl) ==
  ChainSetAs("setExternalAdapterResponse", key, value, ttl)

\* an exec that settles with the first promise only
ExecResult_Race(ps) == IF ps = <<>> THEN <<>> ELSE <<Head(ps)>>

\* Promise.all(this.promises): the results, in the order of the promises
ExecResult(ps) == ps

\* CommandChainMock.exec
ChainExec ==
  /\ execRes' = [resolved |-> TRUE, results |-> ExecResult(promises)]
  /\ UNCHANGED <<redisVars, clockVars, promises, applied, pureVars>>

-----------------------------------------------------------------------------
(* TestMetrics: the text of a metrics scrape is parsed into a map from     *)
(* `name|labels` to the value.  Text is a sequence of characters.          *)

StartsWith(s, p) == Len(s) >= Len(p) /\ SubSeq(s, 1, Len(p)) = p

\* where `sep` first occurs in s: the number of characters before it
IndexOf(s, sep) ==
  CHOOSE off \in 0..(Len(s) - Len(sep)) :
    /\ SubSeq(s, off + 1, off + Len(sep)) = sep
    /\ \A o \in 0..(off - 1) : SubSeq(s, o + 1, o + Len(sep)) # sep

RECURSIVE Split(_, _)
\* s.split(sep)
Split(s, sep) ==
  IF Includes(s, sep)
    THEN <<SubSeq(s, 1, IndexOf(s, sep))>>
           \o Split(SubSeq(s, IndexOf(s, sep) + Len(sep) + 1, Len(s)), sep)
    ELSE <<s>>

RECURSIVE Join(_, _)
\* parts.join(sep)
Join(parts, sep) ==
  IF parts = <<>> THEN <<>>
  ELSE IF Len(parts) = 1 THEN parts[1]
  ELSE parts[1] \o sep \o Join(Tail(parts), sep)

\* the characters of the model in the order localeCompare gives them:
\* punctuation, then digits, then letters
CollationOrder ==
  <<" ", "_", ",", "'", "\"", "{", "}", "\\", "#", "=", "|",
     "0", "1", "2", "3", "4", "5", "6", "7", "8", "9",
     "a", "b", "c", "d", "e", "f", "g", "h", "i", "j", "k", "l", "m",
     "n", "o", "p", "q", "r", "s", "t", "u", "v", "w", "x", "y", "z">>

Rank(ch) == CHOOSE r \in 1..Len(CollationOrder) : CollationOrder[r] = ch

RECURSIVE Less(_, _)
\* a.localeCompare(b) < 0
Less(a, b) ==
  IF a = <<>> THEN b # <<>>
  ELSE IF b = <<>> THEN FALSE
  ELSE IF Rank(Head(a)) # Rank(Head(b)) THEN Rank(Head(a)) < Rank(Head(b))
  ELSE Less(Tail(a), Tail(b))

RECURSIVE Insert(_, _)
Insert(x, sorted) ==
  IF sorted = <<>> THEN <<x>>
  ELSE IF Less(x, Head(sorted)) THEN <<x>> \o sorted
  ELSE <<Head(sorted)>> \o Insert(x, Tail(sorted))

RECURSIVE Sort(_)
\* parts.sort((a, b) => a.localeCompare(b))
Sort(parts) ==
  IF parts = <<>> THEN <<>> ELSE Insert(Head(parts), Sort(Tail(parts)))

BackslashQuote == <<"\\", "\"">>

\* replaceQuotes: s.replace(/\\"/g, "'")
ReplaceQuotes(s) == Join(Split(s, BackslashQuote), <<"'">>)

\* [a-z_]
NameChars ==
  { "a", "b", "c", "d", "e", "f", "g", "h", "i", "j", "k", "l", "m", "n", "o",
    "p", "q", "r", "s", "t", "u", "v", "w", "x", "y", "z", "_" }

\* nameAndLabels.match(/^([a-z_]+){(.*)}$/) finds a match
Matches(s) ==
  /\ Includes(s, <<"{">>)
  /\ IndexOf(s, <<"{">>) >= 1
  /\ \A j \in 1..IndexOf(s, <<"{">>) : s[j] \in NameChars
  /\ s[Len(s)] = "}"

\* the two groups of the match
MatchName(s) == SubSeq(s, 1, IndexOf(s, <<"{">>))

MatchLabels(s) == SubSeq(s, IndexOf(s, <<"{">>) + 2, Len(s) - 1)

\* the line is a comment, a housekeeping metric or empty
Skipped(line) ==
  \/ StartsWith(line, <<"#">>)
  \/ StartsWith(line, <<"n", "o", "d", "e", "j", "s", "_">>)
  \/ StartsWith(line, <<"p", "r", "o", "c", "e", "s", "s", "_">>)
  \/ line = <<>>

\* a fragment the filter keeps
KeptLabel(label) == label # <<>> /\ ~StartsWith(label, <<"a", "p", "p", "_">>)

\* the closing quote that goes back on a fragment
CloseQuote(fragment) == fragment \o <<"\"">>

\* sortedLabels of the constructor
SortedLabelsOfLine(rawLabels) ==
  LET fragments == SelectSeq(Split(ReplaceQuotes(rawLabels), <<"\"", ",">>), KeptLabel)
      sorted == Sort(fragments)
  IN  Join([j \in 1..Len(sorted) |-> CloseQuote(sorted[j])], <<",">>)

\* line.split(' ')[0]
NameAndLabels(line) == Split(line, <<" ">>)[1]

\* line.split(' ')[1]; every line of the model has one
StringValue(line) == Split(line, <<" ">>)[2]

Digits == <<"0", "1", "2", "3", "4", "5", "6", "7", "8", "9">>

RECURSIVE Number(_)
\* Number(stringValue) of a string of digits
Number(str) ==
  IF str = <<>> THEN 0
  ELSE 10 * Number(SubSeq(str, 1, Len(str) - 1))
         + (CHOOSE d \in 0..9 : Digits[d + 1] = str[Len(str)])

\* fullName of the constructor
FullName(line) ==
  MatchName(NameAndLabels(line)) \o <<"|">>
    \o SortedLabelsOfLine(MatchLabels(NameAndLabels(line)))

RECURSIVE ParseLines(_, _)
\* the loop of the constructor: the map after the lines, or the TypeError
\* of destructuring the null a line without braces gives
ParseLines(lines, m) ==
  IF lines = <<>> THEN [threw |-> FALSE, entries |-> m]
  ELSE IF Skipped(Head(lines)) THEN ParseLines(Tail(lines), m)
  ELSE IF ~Matches(NameAndLabels(Head(lines)))
    THEN [threw |-> TRUE, entries |-> m]
  ELSE ParseLines(Tail(lines),
         (FullName(Head(lines)) :> Number(StringValue(Head(lines)))) @@ m)

\* new TestMetrics(data)
TestMetricsConstructor ==
  /\ ~map.constructed /\ ~map.threw
  /\ data # <<>>
  /\ LET r == ParseLines(data, <<>>)
     IN  map' = [constructed |-> ~r.threw, threw |-> r.threw,
                 entries |-> r.entries]
  /\ UNCHANGED <<redisVars, clockVars, chainVars, stubVars, cacheVars,
                 sample, data, got,
                 failures>>

\* `${labelName}="${this.replaceQuotes(value)}"`
LabelText(l) == l.n \o <<"=", "\"">> \o ReplaceQuotes(l.v) \o <<"\"">>

\* get called without labels
NoLabels == <<[n |-> <<>>, v |-> <<>>]>>

\* sortedLabels of get
SortedLabelsOfQuery(labels) ==
  IF labels = NoLabels THEN <<>>
  ELSE Join(Sort([j \in 1..Len(labels) |-> LabelText(labels[j])]), <<",">>)

\* `${name}|${sortedLabels}` of get
QueryKey(name, labels) == name \o <<"|">> \o SortedLabelsOfQuery(labels)

\* keys whose metric name is the queried name
SameNameMetrics_ExactName(m, name) ==
  {k \in DOMAIN m : StartsWith(k, name \o <<"|">>)}

\* [...this.map.keys()].filter((k) => k.startsWith(name))
SameNameMetrics(m, name) == {k \in DOMAIN m : StartsWith(k, name)}

\* TestMetrics.get: the metric or undefined, and the failure it records
Get(name, labels) ==
  LET key == QueryKey(name, labels)
      found == key \in DOMAIN map.entries
  IN  /\ got' = [n |-> got.n + 1, name |-> name, labels |-> labels,
                 key |-> key, found |-> found,
                 metric |-> IF found THEN map.entries[key] ELSE 0,
                 listed |-> IF found THEN {}
                            ELSE SameNameMetrics(map.entries, name)]

\* t.fail / a failed t.is: recorded on the test context, the test goes on
Fail(fs, kind, key, listed) ==
  Append(fs, [kind |-> kind, key |-> key, listed |-> listed])

\* TestMetrics.assert
TestMetricsAssert(name, labels, expectedValue) ==
  /\ map.constructed
  /\ got.n < MaxGets
  /\ Get(name, labels)
  /\ failures' =
       LET afterGet == IF got'.found THEN failures
                       ELSE Fail(failures, "notFound", got'.key, got'.listed)
       IN  IF got'.found /\ got'.metric = expectedValue THEN afterGet
           ELSE Fail(afterGet, "is", got'.key, {})
  /\ UNCHANGED <<redisVars, clockVars, chainVars, stubVars, cacheVars,
                 sample, data, map>>

\* TestMetrics.assertPositiveNumber
TestMetricsAssertPositiveNumber(name, labels) ==
  /\ map.constructed
  /\ got.n < MaxGets
  /\ Get(name, labels)
  /\ failures' =
       IF got'.found
         THEN IF got'.metric > 0 THEN failures
              ELSE Fail(failures, "is", got'.key, {})
         ELSE Fail(Fail(failures, "notFound", got'.key, got'.listed),
                   "didNotRecord", got'.key, {})
  /\ UNCHANGED <<redisVars, clockVars, chainVars, stubVars, cacheVars,
                 sample, data, map>>

-----------------------------------------------------------------------------
(* makeStub: a Proxy whose get trap throws on a property the target does   *)
(* not have.  A value is its type and what tells it from others of the     *)
(* type; an object is named by its id in the heap.                         *)

UndefinedValue == [t |-> "undefined", v |-> ""]

NullValue == [t |-> "null", v |-> ""]

NumberValue == [t |-> "number", v |-> "1"]

StringValueS == [t |-> "string", v |-> "s"]

FunctionValue(f) == [t |-> "function", v |-> f]

ObjectValue(id) == [t |-> "object", v |-> id]

\* typeof obj
TypeOf(val) == IF val.t = "null" THEN "object" ELSE val.t

\* a property key: a string, or a symbol with its description
StringProp(n) == [sym |-> FALSE, s |-> n]

SymbolProp(n) == [sym |-> TRUE, s |-> n]

\* String(prop)
StringOf(prop) == IF prop.sym THEN "Symbol(" \o prop.s \o ")" ELSE prop.s

\* makeStub has not been called
NoStub == [kind |-> "none", name |-> "", val |-> UndefinedValue]

\* a presence test that looks at own properties only
In_OwnOnly(prop, own) == ~prop.sym /\ prop.s \in DOMAIN own

\* prop in target: an own property, or one Object.prototype gives
In(prop, own) ==
  ~prop.sym /\ (prop.s \in DOMAIN own \/ prop.s \in ObjectPrototypeProps)

\* target[prop]
Read(prop, own) ==
  IF prop.sym THEN UndefinedValue
  ELSE IF prop.s \in DOMAIN own THEN own[prop.s]
  ELSE IF prop.s \in ObjectPrototypeProps
    THEN FunctionValue("Object.prototype." \o prop.s)
  ELSE UndefinedValue

allowedUndefinedStubProps ==
  { "$$typeof", "nodeType", "tagName", "hasAttribute",
    "@@__IMMUTABLE_ITERABLE__@@", "@@__IMMUTABLE_RECORD__@@", "toJSON",
    "asymmetricMatch", "then" }

isStubPropAllowedUndefined(prop) ==
  IF prop.sym THEN TRUE ELSE prop.s \in allowedUndefinedStubProps

\* makeStub(name, obj): obj itself, or a Proxy of it that knows its name
makeStub(name, obj) ==
  IF obj.t = "null" \/ TypeOf(obj) # "object"
    THEN [kind |-> "raw", name |-> name, val |-> obj]
    ELSE [kind |-> "stub", name |-> name, val |-> obj]

\* makeStub('obj', root) is called
MakeStubCall ==
  /\ cur' = makeStub("obj", root)
  /\ path' = <<>>
  /\ stubErr' = ""
  /\ UNCHANGED <<redisVars, clockVars, chainVars, metricsVars, cacheVars,
                 heap, root>>

\* the get trap: a read of `prop` through the stub the last read returned
StubGet(prop) ==
  /\ cur.kind = "stub"
  /\ stubErr = ""
  /\ path' = Append(path, prop)
  /\ LET target == heap[cur.val.v]
         propName == cur.name \o "." \o StringOf(prop)
     IN  IF ~In(prop, target) /\ ~isStubPropAllowedUndefined(prop)
           THEN /\ stubErr' = "Property '" \o propName \o "' does not exist"
                /\ UNCHANGED cur
           ELSE /\ cur' = makeStub(propName, Read(prop, target))
                /\ UNCHANGED stubErr
  /\ UNCHANGED <<redisVars, clockVars, chainVars, metricsVars, cacheVars,
                 heap, root>>

-----------------------------------------------------------------------------
(* MockCache: a LocalCache whose set also resolves the promise the last    *)
(* waitForNextSet returned.  A promise is named by its place in `waiters`. *)

CacheKeys == {"c1", "c2"}

\* awaitingPromiseResolve before the first waitForNextSet: undefined
NoResolve == 0

\* a promise nothing has resolved
Pending == [state |-> "pending", value |-> Undefined]

\* a resolver that settles the promise again each time it is called
Resolve_Overwrite(ws, id, value) ==
  [ws EXCEPT ![id] = [state |-> "resolved", value |-> value]]

\* resolve(value): it settles a pending promise; on a settled one it does nothing
Resolve(ws, id, value) ==
  IF ws[id].state = "pending"
    THEN [ws EXCEPT ![id] = [state |-> "resolved", value |-> value]]
    ELSE ws

\* MockCache.waitForNextSet: a new promise, whose resolver replaces the old one
WaitForNextSet ==
  /\ Len(waiters) < MaxWaits
  /\ waiters' = Append(waiters, Pending)
  /\ awaitingPromiseResolve' = Len(waiters) + 1
  /\ UNCHANGED <<redisVars, clockVars, chainVars, metricsVars, stubVars,
                 mcache, sets>>

\* MockCache.set: super.set, then the resolver, if there is one
MockCacheSet(key, value, ttl) ==
  /\ Len(sets) < MaxSets
  /\ mcache' = LocalCacheSet(mcache, key, value, ttl, 0)
  /\ sets' = Append(sets, [key |-> key, value |-> value,
                           waits |-> Len(waiters)])
  /\ waiters' = IF awaitingPromiseResolve # NoResolve
                  THEN Resolve(waiters, awaitingPromiseResolve, value)
                  ELSE waiters
  /\ UNCHANGED <<redisVars, clockVars, chainVars, metricsVars, stubVars,
                 awaitingPromiseResolve>>

-----------------------------------------------------------------------------
(* The virtual clock and the JavaScript job queue.  A task of the system   *)
(* under test is a script of steps; it runs until it awaits.               *)

M == [k |-> "micro", d |-> 0]

W == [k |-> "write", d |-> 0]

S(d) == [k |-> "sleep", d |-> d]

Tasks == {"fn", "bg1", "bg2"}

BgTasks == {"bg1", "bg2"}

\* what a background execution does after its period has elapsed
Secondary == {<<>>, <<M>>, <<S(1)>>, <<M, S(1)>>, <<S(2), S(1)>>}

Periods == {1, 2, 3}

\* a background process: wait for the period, do the secondary work, write
BgScripts == {<<S(p)>> \o sec \o <<W>> : p \in Periods, sec \in Secondary}

\* the steps of the operation handed to waitUntilResolved
FnSteps == {M, S(1), S(2)}

FnScripts == UNION {[1..n -> FnSteps] : n \in 0..MaxFnLen}

FnOutcomes ==
  { [how |-> "fulfil", value |-> "v1"],
    [how |-> "fulfil", value |-> Undefined],
    [how |-> "reject", value |-> "err"],
    [how |-> "never", value |-> Undefined] }

Min(a, b) == IF a < b THEN a ELSE b

\* a counter of calls, which stops counting at MaxCalls
Count(n) == Min(n + 1, MaxCalls)

RECURSIVE RunFrom(_, _, _, _)
\* a task runs from step p until it awaits: where it stops, the cycles it
\* has left, the writes it made and what it waits for
RunFrom(script, p, cycles, w) ==
  IF p > Len(script)
    THEN IF cycles > 1
           THEN RunFrom(script, 1, cycles - 1, w)
           ELSE [pos |-> p, cyc |-> 0, w |-> w, wait |-> "end", d |-> 0]
  ELSE IF script[p].k = "write"
    THEN RunFrom(script, p + 1, cycles, w + 1)
  ELSE [pos |-> p + 1, cyc |-> cycles, w |-> w, wait |-> script[p].k,
        d |-> script[p].d]

\* clock.now + d registered by setTimeout, ids in registration order
NewTimer(t, d) == [callAt |-> now + d, id |-> nextId, task |-> t]

\* fake-timers' firstTimer: the earliest deadline, ties by registration
FirstTimer(ts) ==
  CHOOSE t \in ts : \A u \in ts :
    t.callAt < u.callAt \/ (t.callAt = u.callAt /\ t.id <= u.id)

\* fake-timers' firstTimerInRange(from, to)
TimersInRange(ts, to) == {t \in ts : t.callAt <= to}

Idle == [op |-> "none", phase |-> 0, tickTo |-> 0]

\* the JavaScript stack is empty: no synchronous segment of the driver runs
StackEmpty ==
  pc \in {"wur_await", "rau_await", "per_awaitTick", "per_awaitRau",
          "rut_await", "sbe_awaitRequest", "sbe_awaitCache"}

\* the jobs a fired timer queues: the task that slept resumes; nothing awaits
\* the promise of runAllUntilTime's own sleep(time)
Jobs(tm) == IF tm.task = "sleep" THEN <<>> ELSE <<tm.task>>

\* the drivers that belong to a TestAdapter
AdapterKinds == {"waitForCache", "startBackgroundExecute", "getMetrics"}

\* the optional number expectedSize when it is left out
NoExpected == -1

\* expectedSize || 1
ExpectedOrOne(e) == IF e = NoExpected \/ e = 0 THEN 1 ELSE e

\* stepValidation(i) of the periodic driver, isComplete() of runAllUntil
Threshold(iter) ==
  IF cfg.kind = "runPeriodic" THEN (iter + 1) * cfg.target
  ELSE IF cfg.kind \in AdapterKinds THEN ExpectedOrOne(cfg.expected)
  ELSE cfg.target

IsComplete == writes >= Threshold(i)

\* the task `t` runs its next segment
RunTask(t, rest) ==
  LET r == RunFrom(cfg.script[t], pos[t], cyc[t], 0)
  IN  /\ pos' = [pos EXCEPT ![t] = r.pos]
      /\ cyc' = [cyc EXCEPT ![t] = r.cyc]
      /\ writes' = writes + r.w
      /\ sat' = IF writes < Threshold(i) /\ writes + r.w >= Threshold(i)
                  THEN [next |-> nextCalls, fired |-> fired]
                  ELSE sat
      /\ CASE r.wait = "micro" ->
                /\ microQ' = Append(rest, t)
                /\ UNCHANGED <<timers, nextId, fnState>>
           [] r.wait = "sleep" ->
                /\ timers' = timers \cup {NewTimer(t, r.d)}
                /\ nextId' = nextId + 1
                /\ microQ' = rest
                /\ UNCHANGED fnState
           [] OTHER ->
                \* the script has ended: the operation settles, or never does
                IF t = "fn" /\ cfg.outcome.how # "never"
                  THEN /\ fnState' = cfg.outcome.how
                       /\ microQ' = Append(rest, "execute")
                       /\ UNCHANGED <<timers, nextId>>
                  ELSE /\ microQ' = rest
                       /\ UNCHANGED <<timers, nextId, fnState>>

\* a job of the system under test runs
MicrotaskTask ==
  /\ StackEmpty
  /\ microQ # <<>>
  /\ Head(microQ) \in Tasks
  /\ RunTask(Head(microQ), Tail(microQ))
  /\ UNCHANGED <<restVars, adapterVars, cfg, now, clk, pc, i, result, ret, fnStarts, nextCalls,
                 tickCalls, svCalls, validated, fired, entry>>

\* `result = await fn()` of waitUntilResolved's execute resumes
MicrotaskExecute ==
  /\ StackEmpty
  /\ microQ # <<>>
  /\ Head(microQ) = "execute"
  /\ microQ' = Tail(microQ)
  /\ result' = IF fnState = "fulfil" THEN cfg.outcome.value ELSE result
  /\ UNCHANGED <<restVars, adapterVars, cfg, pos, cyc, writes, now, timers, nextId, clk, pc, i, ret,
                 fnState, fnStarts, nextCalls, tickCalls, svCalls, validated,
                 fired, entry, sat>>

\* the first macrotask of nextAsync: fire the first timer, if there is one
NextAsyncFire ==
  /\ StackEmpty
  /\ microQ = <<>>
  /\ clk.op = "next" /\ clk.phase = 1
  /\ IF timers = {}
       THEN /\ clk' = Idle
            /\ microQ' = <<"driver">>
            /\ UNCHANGED <<now, timers, fired>>
       ELSE LET tm == FirstTimer(timers)
            IN  /\ now' = tm.callAt
                /\ timers' = timers \ {tm}
                /\ microQ' = Jobs(tm)
                /\ fired' = fired + 1
                /\ clk' = [clk EXCEPT !.phase = 2]
  /\ UNCHANGED <<restVars, adapterVars, cfg, pos, cyc, writes, nextId, pc, i, result, ret, fnState,
                 fnStarts, nextCalls, tickCalls, svCalls, validated, entry, sat>>

\* the second macrotask of nextAsync: the promise resolves
NextAsyncResolve ==
  /\ StackEmpty
  /\ microQ = <<>>
  /\ clk.op = "next" /\ clk.phase = 2
  /\ clk' = Idle
  /\ microQ' = <<"driver">>
  /\ UNCHANGED <<restVars, adapterVars, cfg, pos, cyc, writes, now, timers, nextId, pc, i, result,
                 ret, fnState, fnStarts, nextCalls, tickCalls, svCalls,
                 validated, fired, entry, sat>>

\* a macrotask of tickAsync: fire the next timer due in the window, or move
\* the clock to the end of the window and resolve
TickAsyncStep ==
  /\ StackEmpty
  /\ microQ = <<>>
  /\ clk.op = "tick"
  /\ IF TimersInRange(timers, clk.tickTo) = {}
       THEN /\ now' = clk.tickTo
            /\ clk' = Idle
            /\ microQ' = <<"driver">>
            /\ UNCHANGED <<timers, fired>>
       ELSE LET tm == FirstTimer(TimersInRange(timers, clk.tickTo))
            IN  /\ now' = tm.callAt
                /\ timers' = timers \ {tm}
                /\ microQ' = Jobs(tm)
                /\ fired' = fired + 1
                /\ UNCHANGED clk
  /\ UNCHANGED <<restVars, adapterVars, cfg, pos, cyc, writes, nextId, pc, i, result, ret, fnState,
                 fnStarts, nextCalls, tickCalls, svCalls, validated, entry, sat>>

-----------------------------------------------------------------------------
(* The drivers.  Each action is one synchronous segment of the function.   *)

\* clock.nextAsync() is called
CallNextAsync ==
  /\ nextCalls' = Count(nextCalls)
  /\ clk' = [op |-> "next", phase |-> 1, tickTo |-> 0]

\* what the driver remembers of the moment runAllUntil was entered
Snapshot ==
  [now |-> now, timers |-> timers, writes |-> writes, next |-> nextCalls,
   fired |-> fired, i |-> i]

\* waitUntilResolved: execute() starts fn, which runs until it first awaits
WUR_Call ==
  /\ pc = "wur_call"
  /\ fnStarts' = fnStarts + 1
  /\ RunTask("fn", microQ)
  /\ pc' = "wur_loop"
  /\ UNCHANGED <<restVars, adapterVars, cfg, now, clk, i, result, ret, nextCalls, tickCalls, svCalls,
                 validated, fired, entry>>

\* an iteration bound on the loop of waitUntilResolved
WurLoopCondition_Bounded == result = Undefined /\ nextCalls < 2

\* a loop that runs only until fn has settled, however it settled
WurLoopCondition_UntilSettled == fnState = "pending"

\* while (result === undefined)
WurLoopCondition == result = Undefined

\* waitUntilResolved: the loop test, then nextAsync or the return
WUR_Loop ==
  /\ pc = "wur_loop"
  /\ IF WurLoopCondition
       THEN /\ CallNextAsync
            /\ pc' = "wur_await"
            /\ UNCHANGED <<ret, microQ>>
       ELSE /\ ret' = result
            /\ IF cfg.kind = "startBackgroundExecute"
                 THEN /\ pc' = "sbe_awaitRequest"
                      /\ microQ' = Append(microQ, "driver")
                 ELSE pc' = "returned" /\ UNCHANGED microQ
            /\ UNCHANGED <<nextCalls, clk>>
  /\ UNCHANGED <<restVars, adapterVars, cfg, pos, cyc, writes, now, timers, nextId, i, result,
                 fnState, fnStarts, tickCalls, svCalls, validated, fired,
                 entry, sat>>

\* a loop that runs on while timers are pending
RauLoopCondition_WhileTimers == ~IsComplete \/ timers # {}

\* a loop that gives up once no timer is pending
RauLoopCondition_UntilIdle == ~IsComplete /\ timers # {}

\* while (!isComplete())
RauLoopCondition == ~IsComplete

\* this.mockCache!.cache.size, read when there is no mock cache
PredicateThrows == cfg.kind \in AdapterKinds /\ "mockCache" \notin cfg.deps

\* runAllUntil: the loop test, then nextAsync or the return
RAU_Loop ==
  /\ pc = "rau_loop"
  /\ svCalls' = Count(svCalls)
  /\ IF PredicateThrows
       THEN /\ pc' = "thrown"
            /\ err' = "TypeError"
            /\ UNCHANGED <<validated, microQ, nextCalls, clk>>
     ELSE IF RauLoopCondition
       THEN /\ CallNextAsync
            /\ pc' = "rau_await"
            /\ UNCHANGED <<validated, microQ, err>>
       ELSE /\ validated' = IF IsComplete THEN validated \cup {i} ELSE validated
            /\ CASE cfg.kind = "runPeriodic" ->
                      pc' = "per_awaitRau" /\ microQ' = Append(microQ, "driver")
                 [] cfg.kind = "startBackgroundExecute" ->
                      pc' = "sbe_awaitCache" /\ microQ' = Append(microQ, "driver")
                 [] OTHER -> pc' = "returned" /\ UNCHANGED microQ
            /\ UNCHANGED <<nextCalls, clk, err>>
  /\ UNCHANGED <<restVars, targetTime, cfg, pos, cyc, writes, now, timers, nextId, i, result, ret,
                 fnState, fnStarts, tickCalls, fired, entry, sat>>

\* a loop that runs one iteration too many
PerLoopCondition_OneMore == i <= cfg.times

\* i < times
PerLoopCondition == i < cfg.times

\* runPeriodicAsyncBackgroundExecution: the for test, then tickAsync(interval)
PER_Loop ==
  /\ pc = "per_loop"
  /\ IF PerLoopCondition
       THEN /\ tickCalls' = tickCalls + 1
            /\ clk' = [op |-> "tick", phase |-> 1, tickTo |-> now + cfg.interval]
            /\ pc' = "per_awaitTick"
       ELSE /\ pc' = "returned"
            /\ UNCHANGED <<tickCalls, clk>>
  /\ UNCHANGED <<restVars, adapterVars, cfg, pos, cyc, writes, now, timers, nextId, microQ, i, result,
                 ret, fnState, fnStarts, nextCalls, svCalls, validated, fired,
                 entry, sat>>

\* `await clock.nextAsync()` resumes: back to the loop test
ResumeAfterNextAsync ==
  /\ pc \in {"wur_await", "rau_await", "rut_await"}
  /\ microQ # <<>> /\ Head(microQ) = "driver"
  /\ microQ' = Tail(microQ)
  /\ pc' = CASE pc = "wur_await" -> "wur_loop"
              [] pc = "rau_await" -> "rau_loop"
              [] OTHER -> "rut_loop"
  /\ UNCHANGED <<restVars, adapterVars, cfg, pos, cyc, writes, now, timers, nextId, clk, i, result,
                 ret, fnState, fnStarts, nextCalls, tickCalls, svCalls,
                 validated, fired, entry, sat>>

\* `await clock.tickAsync(interval)` resumes: runAllUntil is entered
ResumeAfterTickAsync ==
  /\ pc = "per_awaitTick"
  /\ microQ # <<>> /\ Head(microQ) = "driver"
  /\ microQ' = Tail(microQ)
  /\ pc' = "rau_loop"
  /\ entry' = Snapshot
  /\ sat' = IF IsComplete THEN [next |-> nextCalls, fired |-> fired] ELSE sat
  /\ UNCHANGED <<restVars, adapterVars, cfg, pos, cyc, writes, now, timers, nextId, clk, i, result,
                 ret, fnState, fnStarts, nextCalls, tickCalls, svCalls,
                 validated, fired>>

\* `await runAllUntil(...)` resumes: i++
ResumeAfterRunAllUntil ==
  /\ pc = "per_awaitRau"
  /\ microQ # <<>> /\ Head(microQ) = "driver"
  /\ microQ' = Tail(microQ)
  /\ i' = i + 1
  /\ pc' = "per_loop"
  /\ UNCHANGED <<restVars, adapterVars, cfg, pos, cyc, writes, now, timers, nextId, clk, result, ret,
                 fnState, fnStarts, nextCalls, tickCalls, svCalls, validated,
                 fired, entry, sat>>

\* a loop that takes one more step when the clock is at the target
RutLoopCondition_Inclusive == now <= targetTime

\* clock.now < targetTime
RutLoopCondition == now < targetTime

\* a runAllUntilTime that computes targetTime and registers no timer
RUT_Call_NoSleep ==
  /\ pc = "rut_call"
  /\ targetTime' = now + cfg.time
  /\ pc' = "rut_loop"
  /\ UNCHANGED <<restVars, err, cfg, pos, cyc, writes, now, microQ, clk, i,
                 result, ret, fnState, fnStarts, nextCalls, tickCalls, svCalls,
                 validated, fired, entry, sat, timers, nextId>>

\* runAllUntilTime: targetTime is computed and sleep(time) registers its timer
RUT_Call ==
  /\ pc = "rut_call"
  /\ targetTime' = now + cfg.time
  /\ timers' = timers \cup {NewTimer("sleep", cfg.time)}
  /\ nextId' = nextId + 1
  /\ pc' = "rut_loop"
  /\ UNCHANGED <<restVars, err, cfg, pos, cyc, writes, now, microQ, clk, i,
                 result, ret, fnState, fnStarts, nextCalls, tickCalls, svCalls,
                 validated, fired, entry, sat>>

\* runAllUntilTime: the loop test, then nextAsync or the return
RUT_Loop ==
  /\ pc = "rut_loop"
  /\ IF RutLoopCondition
       THEN /\ CallNextAsync
            /\ pc' = "rut_await"
       ELSE /\ pc' = "returned"
            /\ UNCHANGED <<nextCalls, clk>>
  /\ UNCHANGED <<restVars, adapterVars, cfg, pos, cyc, writes, now, timers,
                 nextId, microQ, i, result, ret, fnState, fnStarts, tickCalls,
                 svCalls, validated, fired, entry, sat>>

-----------------------------------------------------------------------------
(* TestAdapter: the methods that need a clock, a mock cache or metrics.    *)

\* TestAdapter.waitForCache: the check of the clock, then runAllUntil
WFC_Call ==
  /\ pc = "wfc_call"
  /\ IF "clock" \notin cfg.deps
       THEN /\ pc' = "thrown"
            /\ err' = "config"
            /\ UNCHANGED <<entry, sat>>
       ELSE /\ pc' = "rau_loop"
            /\ entry' = Snapshot
            /\ sat' = IF "mockCache" \in cfg.deps /\ IsComplete
                        THEN [next |-> nextCalls, fired |-> fired] ELSE sat
            /\ UNCHANGED err
  /\ UNCHANGED <<restVars, targetTime, cfg, pos, cyc, writes, now, timers,
                 nextId, microQ, clk, i, result, ret, fnState, fnStarts,
                 nextCalls, tickCalls, svCalls, validated, fired>>

\* TestAdapter.startBackgroundExecuteThenGetResponse: the two checks, then
\* the first request
SBE_Call ==
  /\ pc = "sbe_call"
  /\ IF "clock" \notin cfg.deps \/ "mockCache" \notin cfg.deps
       THEN pc' = "thrown" /\ err' = "config"
       ELSE pc' = "wur_call" /\ UNCHANGED err
  /\ UNCHANGED <<restVars, targetTime, cfg, pos, cyc, writes, now, timers,
                 nextId, microQ, clk, i, result, ret, fnState, fnStarts,
                 nextCalls, tickCalls, svCalls, validated, fired, entry, sat>>

\* `await this.request(...)` resumes: after the first request waitForCache is
\* called, after the second the response is returned
ResumeAfterRequest ==
  /\ pc = "sbe_awaitRequest"
  /\ microQ # <<>> /\ Head(microQ) = "driver"
  /\ microQ' = Tail(microQ)
  /\ IF fnStarts = 1
       THEN /\ pc' = "rau_loop"
            /\ entry' = Snapshot
            /\ sat' = IF IsComplete THEN [next |-> nextCalls, fired |-> fired]
                        ELSE sat
       ELSE /\ pc' = "returned"
            /\ UNCHANGED <<entry, sat>>
  /\ UNCHANGED <<restVars, adapterVars, cfg, pos, cyc, writes, now, timers,
                 nextId, clk, i, result, ret, fnState, fnStarts, nextCalls,
                 tickCalls, svCalls, validated, fired>>

\* `await this.waitForCache(...)` resumes: the second request, a new call of
\* waitUntilResolved with its own `result`
ResumeAfterWaitForCache ==
  /\ pc = "sbe_awaitCache"
  /\ microQ # <<>> /\ Head(microQ) = "driver"
  /\ microQ' = Tail(microQ)
  /\ pos' = [pos EXCEPT !["fn"] = 1]
  /\ cyc' = [cyc EXCEPT !["fn"] = 1]
  /\ fnState' = "pending"
  /\ result' = Undefined
  /\ pc' = "wur_call"
  /\ UNCHANGED <<restVars, adapterVars, cfg, writes, now, timers, nextId, clk,
                 i, ret, fnStarts, nextCalls, tickCalls, svCalls, validated,
                 fired, entry, sat>>

\* TestAdapter.getMetrics: the check of the metrics API, then the scrape
GM_Call ==
  /\ pc = "gm_call"
  /\ IF "metricsApi" \notin cfg.deps
       THEN pc' = "thrown" /\ err' = "config"
       ELSE pc' = "returned" /\ UNCHANGED err
  /\ UNCHANGED <<restVars, targetTime, cfg, pos, cyc, writes, now, timers,
                 nextId, microQ, clk, i, result, ret, fnState, fnStarts,
                 nextCalls, tickCalls, svCalls, validated, fired, entry, sat>>

-----------------------------------------------------------------------------
(* The calls the model starts from.                                        *)

NoScripts == [t \in Tasks |-> <<>>]

Bg2Scripts == {<<S(1), W>>, <<S(2), M, W>>}

\* the background processes of the system under test: script and cycles
BgConfigs ==
  { [script |-> [NoScripts EXCEPT !["bg1"] = s1, !["bg2"] = s2],
     cyc |-> [fn |-> 1, bg1 |-> c1, bg2 |-> c2]] :
      s1 \in BgScripts, c1 \in 1..MaxCycles, s2 \in Bg2Scripts, c2 \in {1} }
  \cup
  { [script |-> [NoScripts EXCEPT !["bg1"] = s1],
     cyc |-> [fn |-> 1, bg1 |-> c1, bg2 |-> 0]] :
      s1 \in BgScripts, c1 \in 1..MaxCycles }
  \cup
  { [script |-> NoScripts, cyc |-> [fn |-> 1, bg1 |-> 0, bg2 |-> 0]] }

\* the timers that are around while waitUntilResolved runs
WurBgConfigs ==
  { [script |-> [NoScripts EXCEPT !["bg1"] = <<S(1), W>>],
     cyc |-> [fn |-> 1, bg1 |-> c1, bg2 |-> 0]] : c1 \in 0..MaxCycles }

Intervals == {1, 2, 3}

\* what a TestAdapter can be constructed with
AllDeps == {"clock", "mockCache", "metricsApi"}

\* all of them, all but one, or none
DepSets == {AllDeps, {}} \cup {AllDeps \ {d} : d \in AllDeps}

\* the background execution that fills the cache while the adapter waits
AdapterBgConfigs ==
  { [script |-> [NoScripts EXCEPT !["bg1"] = <<S(p), W>>],
     cyc |-> [fn |-> 1, bg1 |-> c1, bg2 |-> 0]] :
      p \in Periods, c1 \in 1..MaxCycles }
  \cup
  { [script |-> NoScripts, cyc |-> [fn |-> 1, bg1 |-> 0, bg2 |-> 0]] }

\* expectedSize / expectedCacheSize: omitted, or a number
Expecteds == {NoExpected} \cup 0..MaxExpected

\* clock.now when runAllUntilTime is called
StartTimes == {0, 2}

Configs ==
  { [kind |-> "waitUntilResolved", script |-> [b.script EXCEPT !["fn"] = f],
     cyc |-> b.cyc, outcome |-> o, target |-> 0, interval |-> 0, times |-> 0,
     writes |-> 0,
     time |-> 0, t0 |-> 0, expected |-> NoExpected, deps |-> AllDeps] :
      b \in WurBgConfigs, f \in FnScripts, o \in FnOutcomes }
  \cup
  { [kind |-> "runAllUntil", script |-> b.script, cyc |-> b.cyc,
     outcome |-> [how |-> "never", value |-> Undefined], target |-> g,
     interval |-> 0, times |-> 0, writes |-> w,
     time |-> 0, t0 |-> 0, expected |-> NoExpected, deps |-> AllDeps] :
      b \in BgConfigs, g \in 0..MaxTarget, w \in {0, 1} }
  \cup
  { [kind |-> "runPeriodic", script |-> b.script, cyc |-> b.cyc,
     outcome |-> [how |-> "never", value |-> Undefined], target |-> g,
     interval |-> n, times |-> m, writes |-> 0,
     time |-> 0, t0 |-> 0, expected |-> NoExpected, deps |-> AllDeps] :
      b \in BgConfigs, g \in {0, 1}, n \in Intervals, m \in 0..MaxTimes }
  \cup
  { [kind |-> "runAllUntilTime", script |-> b.script, cyc |-> b.cyc,
     outcome |-> [how |-> "never", value |-> Undefined], target |-> 0,
     interval |-> 0, times |-> 0, writes |-> 0,
     time |-> d, t0 |-> t, expected |-> NoExpected, deps |-> AllDeps] :
      b \in BgConfigs, d \in 0..MaxTime, t \in StartTimes }
  \cup
  { [kind |-> "waitForCache", script |-> b.script, cyc |-> b.cyc,
     outcome |-> [how |-> "never", value |-> Undefined], target |-> 0,
     interval |-> 0, times |-> 0, writes |-> w,
     time |-> 0, t0 |-> 0, expected |-> e, deps |-> ds] :
      b \in AdapterBgConfigs, w \in {0, 1}, e \in Expecteds, ds \in DepSets }
  \cup
  { [kind |-> "startBackgroundExecute",
     script |-> [b.script EXCEPT !["fn"] = f], cyc |-> b.cyc,
     outcome |-> [how |-> "fulfil", value |-> "v1"], target |-> 0,
     interval |-> 0, times |-> 0, writes |-> 0,
     time |-> 0, t0 |-> 0, expected |-> e, deps |-> ds] :
      b \in AdapterBgConfigs, f \in FnScripts, e \in Expecteds,
      ds \in DepSets }
  \cup
  { [kind |-> "getMetrics", script |-> NoScripts,
     cyc |-> [t \in Tasks |-> 0],
     outcome |-> [how |-> "never", value |-> Undefined], target |-> 0,
     interval |-> 0, times |-> 0, writes |-> 0,
     time |-> 0, t0 |-> 0, expected |-> NoExpected, deps |-> ds] : ds \in DepSets }

NoSat == [next |-> -1, fired |-> -1]

InitDriver(c) ==
  /\ cfg = c
  /\ pos = [t \in Tasks |-> 1]
  /\ cyc = c.cyc
  /\ writes = c.writes
  /\ now = c.t0
  /\ timers = {}
  /\ nextId = 1
  /\ microQ = SelectSeq(<<"bg1", "bg2">>, LAMBDA t : c.cyc[t] > 0)
  /\ clk = Idle
  /\ pc = CASE c.kind = "waitUntilResolved" -> "wur_call"
            [] c.kind = "runAllUntil" -> "rau_loop"
            [] c.kind = "runAllUntilTime" -> "rut_call"
            [] c.kind = "waitForCache" -> "wfc_call"
            [] c.kind = "startBackgroundExecute" -> "sbe_call"
            [] c.kind = "getMetrics" -> "gm_call"
            [] OTHER -> "per_loop"
  /\ i = 0
  /\ result = Undefined
  /\ ret = Undefined
  /\ fnState = "pending"
  /\ fnStarts = 0
  /\ nextCalls = 0
  /\ tickCalls = 0
  /\ svCalls = 0
  /\ validated = {}
  /\ fired = 0
  /\ entry = [now |-> c.t0, timers |-> {}, writes |-> c.writes, next |-> 0,
              fired |-> 0, i |-> 0]
  /\ sat = IF c.kind = "runAllUntil" /\ c.writes >= c.target
             THEN [next |-> 0, fired |-> 0] ELSE NoSat
  /\ targetTime = 0
  /\ err = "none"

\* no driver runs: the state of the clock part while only RedisMock is used
NoDriver ==
  [kind |-> "none", script |-> NoScripts, cyc |-> [t \in Tasks |-> 0],
   outcome |-> [how |-> "never", value |-> Undefined], target |-> 0,
   interval |-> 0, times |-> 0, writes |-> 0,
   time |-> 0, t0 |-> 0, expected |-> NoExpected, deps |-> AllDeps]

\* no TestMetrics has been constructed
InitMetrics(smp, d) ==
  /\ sample = smp
  /\ data = d
  /\ map = NoMap
  /\ got = NoGet
  /\ failures = <<>>

\* makeStub has not been called on `r`
InitStub(h, r) ==
  /\ heap = h
  /\ root = r
  /\ cur = NoStub
  /\ path = <<>>
  /\ stubErr = ""

\* new MockCache(maxItems): an empty cache, no resolver
InitCache ==
  /\ mcache = [k \in CacheKeys |-> Absent]
  /\ awaitingPromiseResolve = NoResolve
  /\ waiters = <<>>
  /\ sets = <<>>

\* nothing is parsed or wrapped, and the MockCache is unused
InitPure ==
  /\ InitMetrics(NoSample, <<>>)
  /\ InitStub(<<>>, UndefinedValue)
  /\ InitCache

InitClock ==
  InitStore /\ InitChain /\ InitPure /\ \E c \in Configs : InitDriver(c)

NextClock ==
  \/ WUR_Call
  \/ WUR_Loop
  \/ RAU_Loop
  \/ PER_Loop
  \/ ResumeAfterNextAsync
  \/ ResumeAfterTickAsync
  \/ ResumeAfterRunAllUntil
  \/ RUT_Call
  \/ RUT_Loop
  \/ WFC_Call
  \/ SBE_Call
  \/ ResumeAfterRequest
  \/ ResumeAfterWaitForCache
  \/ GM_Call
  \/ MicrotaskTask
  \/ MicrotaskExecute
  \/ NextAsyncFire
  \/ NextAsyncResolve
  \/ TickAsyncStep

SpecClock == InitClock /\ [][NextClock]_vars

\* the event loop runs a job or a macrotask whenever there is one
FairSpecClock == SpecClock /\ WF_vars(NextClock)

-----------------------------------------------------------------------------
(* RedisMock on its own: any sequence of calls, while time passes.         *)

InitRedis == InitStore /\ InitChain /\ InitPure /\ InitDriver(NoDriver)

NextRedis ==
  \/ \E k \in StoreKeys : RedisGet(k)
  \/ \E k \in StoreKeys : RedisDel(k)
  \/ \E k \in StoreKeys, v \in Values, t \in Ttls : RedisSet(k, v, t)
  \/ \E k \in StoreKeys, v \in Values, t \in Ttls :
       RedisSetExternalAdapterResponse(k, v, t)
  \/ RedisMulti
  \/ \E op \in {"defineCommand", "pexpire", "quit"} : RedisNoOp(op)
  \/ \E r \in ResourceKeys, h \in HolderTokens, t \in Ttls :
       RedisEvalsha(r, h, t)
  \/ RedisTick
  \/ \E k \in StoreKeys : LocalCacheEvict(k)

SpecRedis == InitRedis /\ [][NextRedis]_vars

-----------------------------------------------------------------------------
(* A chain obtained from multi(), used any way a caller can.               *)

ChainTtls == {1}

NextChain ==
  \/ RedisMulti
  \/ \E k \in StoreKeys, v \in Values, t \in ChainTtls : ChainSet(k, v, t)
  \/ \E k \in StoreKeys, v \in Values, t \in ChainTtls :
       ChainSetExternalAdapterResponse(k, v, t)
  \/ ChainExec

SpecChain == InitRedis /\ [][NextChain]_vars

-----------------------------------------------------------------------------
(* A TestMetrics built from a scrape, then asked for metrics.              *)

\* a="1", b="\"2" (a value with an escaped quote), app_n="x", app_v="1"
LabelA == [n |-> <<"a">>, v |-> <<"1">>]

LabelB == [n |-> <<"b">>, v |-> <<"\\", "\"", "2">>]

LabelAppN == [n |-> <<"a", "p", "p", "_", "n">>, v |-> <<"x">>]

LabelAppV == [n |-> <<"a", "p", "p", "_", "v">>, v |-> <<"1">>]

LabelPool == {LabelA, LabelB, LabelAppN, LabelAppV}

\* the labels of a sample line, in the order the line gives them
LabelSeqs ==
  { ls \in UNION {[1..n -> LabelPool] : n \in 0..MaxLabels} :
      \A a, b \in DOMAIN ls : a # b => ls[a] # ls[b] }

Samples ==
  { [name |-> <<"m">>, labels |-> ls, value |-> <<"5">>] : ls \in LabelSeqs }

\* label="value" as the exposition format writes it
RawLabel(l) == l.n \o <<"=", "\"">> \o l.v \o <<"\"">>

\* name{label="value",...} value
Render(smp) ==
  smp.name \o <<"{">>
    \o Join([j \in 1..Len(smp.labels) |-> RawLabel(smp.labels[j])], <<",">>)
    \o <<"}", " ">> \o smp.value

\* the lines that follow the sample: none; lines the parser skips; metrics
\* under other keys; a metric without labels
Extras ==
  { <<>>,
    << <<"#", " ", "m">>,
       <<"n", "o", "d", "e", "j", "s", "_", "x", "{", "a", "=", "\"", "1", "\"", "}", " ", "3">>,
       <<"p", "r", "o", "c", "e", "s", "s", "_", "y", "{", "a", "=", "\"", "1", "\"", "}", " ", "4">>,
       <<>> >>,
    << <<"m", "m", "{", "a", "=", "\"", "1", "\"", ",", "a", "p", "p", "_", "n", "=", "\"", "x", "\"", "}", " ", "7">>,
       <<"m", "{", "c", "=", "\"", "3", "\"", ",", "a", "p", "p", "_", "n", "=", "\"", "x", "\"", "}", " ", "9">> >>,
    << <<"u", "p", " ", "1">> >> }

QueryNames == {<<"m">>, <<"m", "m">>}

QueryLabels == {NoLabels, <<LabelA>>, <<LabelA, LabelB>>, <<LabelB, LabelA>>}

ExpectedValues == {5}

InitTestMetrics ==
  /\ InitStore /\ InitChain /\ InitDriver(NoDriver)
  /\ \E smp \in Samples, ex \in Extras : InitMetrics(smp, <<Render(smp)>> \o ex)
  /\ InitStub(<<>>, UndefinedValue)
  /\ InitCache

NextMetrics ==
  \/ TestMetricsConstructor
  \/ \E name \in QueryNames, labels \in QueryLabels, v \in ExpectedValues :
       TestMetricsAssert(name, labels, v)
  \/ \E name \in QueryNames, labels \in QueryLabels :
       TestMetricsAssertPositiveNumber(name, labels)

SpecMetrics == InitTestMetrics /\ [][NextMetrics]_vars

-----------------------------------------------------------------------------
(* An object handed to makeStub, and the reads made through the stub.      *)

\* { num: 1, undef: undefined, nul: null, fn() {}, child: { leaf: 's',
\*   deep: { x: 1 } } }, where child may have a `then` of its own and the
\* root a `toString` of its own
HeapOf(ownThen, ownToString) ==
  [ o1 |-> (IF ownToString THEN [toString |-> FunctionValue("own")]
            ELSE <<>>)
           @@ [num |-> NumberValue, undef |-> UndefinedValue,
               nul |-> NullValue, fn |-> FunctionValue("fn"),
               child |-> ObjectValue("o2")],
    o2 |-> (IF ownThen THEN [then |-> NumberValue] ELSE <<>>)
           @@ [leaf |-> StringValueS, deep |-> ObjectValue("o3")],
    o3 |-> [x |-> NumberValue] ]

Heaps == {HeapOf(a, b) : a, b \in BOOLEAN}

\* what makeStub is handed: the object, or something that is not one
RootValues ==
  {ObjectValue("o1"), NumberValue, NullValue, UndefinedValue,
   FunctionValue("fn")}

Props ==
  { StringProp(n) : n \in {"num", "undef", "nul", "fn", "child", "leaf",
                           "deep", "x", "missing", "then", "toJSON",
                           "toString"} }
  \cup {SymbolProp("Symbol.iterator")}

InitMakeStub ==
  /\ InitStore /\ InitChain /\ InitDriver(NoDriver)
  /\ InitMetrics(NoSample, <<>>)
  /\ \E h \in Heaps, r \in RootValues : InitStub(h, r)
  /\ InitCache

NextStub ==
  \/ MakeStubCall
  \/ \E prop \in Props : StubGet(prop)

SpecStub == InitMakeStub /\ [][NextStub]_vars

-----------------------------------------------------------------------------
(* A MockCache on which waitForNextSet and set are called in any order.    *)

InitMockCache == InitRedis

NextCache ==
  \/ WaitForNextSet
  \/ \E k \in CacheKeys, v \in Values, t \in ChainTtls : MockCacheSet(k, v, t)

SpecCache == InitMockCache /\ [][NextCache]_vars

-----------------------------------------------------------------------------
(* Claims about RedisMock, checked under SpecRedis.                        *)

\* a step that is a call of `op`
IsCall(ops) == last'.n # last.n /\ last'.op \in ops

\* C1: every pair evalsha answered 1 for is still the recorded holder of its
\* key, every recorded holder was answered 1, and so no resource key was ever
\* granted to two holder tokens, whatever calls were made in between.
C1_LeaseMutualExclusion ==
  /\ \A g \in granted : KeysLookup(keys, g[1]) = g[2]
  /\ \A r \in DOMAIN keys : <<r, keys[r]>> \in granted
  /\ \A g1, g2 \in granted : g1[1] = g2[1] => g1[2] = g2[2]

\* two keys are held and the last call, by another holder, was rejected
C1_Witness ==
  /\ Cardinality(DOMAIN keys) = 2
  /\ last.op = "evalsha" /\ last.res = 0
  /\ last.rkey \in DOMAIN keys /\ keys[last.rkey] # last.arg

\* C2: evalsha on resource key R by holder H returns 1 and records H when R
\* has no holder, returns 1 when H holds R, and returns 0 when another token
\* holds R; nothing else decides the result.
C2_LeaseProtocolResult ==
  [][IsCall({"evalsha"}) =>
      LET R == last'.rkey
          H == last'.arg
      IN  /\ R \notin DOMAIN keys =>
               last'.res = 1 /\ R \in DOMAIN keys' /\ keys'[R] = H
          /\ (R \in DOMAIN keys /\ keys[R] = H) => last'.res = 1
          /\ (R \in DOMAIN keys /\ keys[R] # H) => last'.res = 0]_vars

\* C3: a rejected evalsha and an extending evalsha leave the lease table and
\* the store as they were; an acquiring evalsha changes the entry of its own
\* resource key and nothing else.
C3_EvalshaFrame ==
  [][IsCall({"evalsha"}) =>
      LET R == last'.rkey
          H == last'.arg
      IN  /\ store' = store
          /\ last'.res = 0 => keys' = keys
          /\ (last'.res = 1 /\ R \in DOMAIN keys) => keys' = keys
          /\ (last'.res = 1 /\ R \notin DOMAIN keys) =>
               /\ DOMAIN keys' = DOMAIN keys \cup {R}
               /\ \A r \in DOMAIN keys : keys'[r] = keys[r]]_vars

\* the store holds an entry, one key is held, and the last call acquired a
\* second key
C3_Witness ==
  /\ LocalCacheSize(store) >= 1
  /\ last.op = "evalsha" /\ last.res = 1
  /\ Cardinality(DOMAIN keys) = 2

\* C4: set and setExternalAdapterResponse on a key that contains
\* 'force-error' throw and leave the store, its contents and its size, as
\* they were.
C4_ForceErrorLeavesStore ==
  [][(IsCall({"set", "setExternalAdapterResponse"})
        /\ last'.skey \in {ForceErrorKey, ForceErrorInsideKey}) =>
      /\ last'.res = "throw"
      /\ store' = store
      /\ LocalCacheSize(store') = LocalCacheSize(store)]_vars

\* a set on a key with 'force-error' inside it has thrown on a store that
\* holds entries
C4_Witness ==
  /\ last.op = "set" /\ last.res = "throw"
  /\ last.skey = ForceErrorInsideKey
  /\ LocalCacheSize(store) = 2

-----------------------------------------------------------------------------
(* Claims about the clock drivers, checked under SpecClock, and under      *)
(* FairSpecClock where they say that something eventually happens.         *)

IsWur == cfg.kind = "waitUntilResolved"

IsRau == cfg.kind = "runAllUntil"

IsPer == cfg.kind = "runPeriodic"

\* runAllUntil has just returned, called on its own or by the periodic driver
RauReturned == (IsRau /\ pc = "returned") \/ (IsPer /\ pc = "per_awaitRau")

\* the writes the system under test can ever make
AchievableWrites == cfg.writes + cfg.cyc["bg1"] + cfg.cyc["bg2"]

\* C5: waitUntilResolved starts fn once, returns only after fn has settled
\* and with the value fn produced, and does return whenever fn produces a
\* value.
C5_WaitUntilResolvedReturnsValue ==
  /\ [](IsWur => fnStarts = IF pc = "wur_call" THEN 0 ELSE 1)
  /\ []((IsWur /\ pc = "returned") =>
          fnState = "fulfil" /\ ret = cfg.outcome.value)
  /\ ((IsWur /\ cfg.outcome.how = "fulfil") => <>(pc = "returned"))

\* C6: waitUntilResolved returns only with the value of a settled fn and
\* runAllUntil only with its predicate true; an unsatisfied loop test always
\* calls nextAsync (a test that can be evaluated: one that throws ends the
\* call instead); and when fn never settles, or the predicate can never
\* become true, nextAsync is called again and again with no timer pending.
C6_NoInternalTimeout ==
  /\ []((IsWur /\ pc = "returned") => fnState = "fulfil" /\ ret # Undefined)
  /\ []((IsRau /\ pc = "returned") => writes >= cfg.target)
  /\ [][((pc = "wur_loop" /\ fnState = "pending")
          \/ (pc = "rau_loop" /\ ~PredicateThrows /\ writes < Threshold(i))) =>
        (clk'.op = "next" /\ pc' \in {"wur_await", "rau_await"})]_vars
  /\ (((IsWur /\ cfg.outcome.how = "never")
        \/ (IsRau /\ AchievableWrites < cfg.target)) =>
      []<>(clk.op = "next" /\ clk.phase = 1 /\ timers = {}))

\* fn never settles, every timer has fired, and the loop is still calling
\* nextAsync
C6_Witness ==
  /\ IsWur /\ cfg.outcome.how = "never"
  /\ fired >= 2 /\ timers = {}
  /\ clk.op = "next" /\ nextCalls >= 4

\* C7: when the predicate holds as runAllUntil is entered, runAllUntil
\* returns with clock.now and the pending timers as they were, no timer
\* fired and nextAsync not called.
C7_NoAdvanceWhenComplete ==
  (RauReturned /\ entry.writes >= Threshold(entry.i)) =>
    /\ now = entry.now
    /\ timers = entry.timers
    /\ fired = entry.fired
    /\ nextCalls = entry.next

\* runAllUntil was entered with its predicate true while timers were
\* pending, and has returned
C7_Witness ==
  /\ RauReturned /\ IsPer
  /\ cfg.target = 1 /\ entry.writes >= Threshold(entry.i)
  /\ entry.timers # {}

\* C8: runAllUntil returns only with its predicate true, and after exactly
\* the nextAsync calls and timer firings it took for the predicate to become
\* true: none after that.
C8_StopsAtFirstCompletion ==
  RauReturned =>
    /\ writes >= Threshold(i)
    /\ nextCalls = sat.next
    /\ fired = sat.fired

\* runAllUntil returned after several nextAsync steps, leaving a timer
\* pending
C8_Witness ==
  /\ IsRau /\ pc = "returned"
  /\ nextCalls >= 2
  /\ timers # {}

\* C9 as stated: the periodic driver has invoked stepValidation exactly
\* `times` times when it returns.
C9_ExactlyTimesInvocations ==
  (IsPer /\ pc = "returned") => svCalls = cfg.times

\* C9 as amended: stepValidation is invoked once after each interval tick and
\* once more after each nextAsync step, so at least `times` times; exactly
\* `times` of the invocations, one per iteration, return true.
C9_AtLeastTimesInvocations ==
  (IsPer /\ pc = "returned") =>
    /\ svCalls >= cfg.times
    /\ svCalls = cfg.times + nextCalls
    /\ validated = 0..(cfg.times - 1)
    /\ tickCalls = cfg.times

\* the driver returned after more invocations than iterations
C9_Witness ==
  /\ IsPer /\ pc = "returned"
  /\ cfg.times = 2
  /\ svCalls > cfg.times

\* C10: the tick of iteration i+1 is issued only after stepValidation(i)
\* returned true, so while a tick runs every earlier iteration's predicate
\* holds; and the driver returns only after the last one returned true.
C10_PeriodicOrdering ==
  IsPer =>
    /\ \A j \in 0..(tickCalls - 2) : j \in validated
    /\ clk.op = "tick" => \A j \in 0..(i - 1) : writes >= Threshold(j)
    /\ pc = "returned" => \A j \in 0..(cfg.times - 1) : j \in validated

\* the second tick runs, after the first iteration needed nextAsync steps to
\* settle
C10_Witness ==
  /\ IsPer /\ cfg.target = 1
  /\ tickCalls = 2 /\ clk.op = "tick"
  /\ nextCalls >= 1

\* C11: stepValidation(i) is evaluated only once the clock has advanced by
\* at least (i+1)*interval since the driver was called at time 0; every tick
\* asks for exactly `interval` milliseconds and ends exactly there; and the
\* driver has issued exactly `times` ticks when it returns.
C11_TickBeforeCheck ==
  /\ []((IsPer /\ pc = "rau_loop") => now >= (i + 1) * cfg.interval)
  /\ []((IsPer /\ pc = "returned") => tickCalls = cfg.times)
  /\ [][(IsPer /\ tickCalls' # tickCalls) =>
        (tickCalls' = tickCalls + 1 /\ clk'.op = "tick"
           /\ clk'.tickTo = now + cfg.interval)]_vars
  /\ [][(IsPer /\ clk.op = "tick" /\ clk'.op # "tick") =>
        now' = clk.tickTo]_vars

\* stepValidation(1) is about to be evaluated, after nextAsync steps took
\* the clock beyond the two ticks
C11_Witness ==
  /\ IsPer /\ pc = "rau_loop"
  /\ i = 1 /\ cfg.times = 2
  /\ now > 2 * cfg.interval

IsRut == cfg.kind = "runAllUntilTime"

\* C12: runAllUntilTime(clock, time), called at time t0, never takes the
\* clock beyond t0 + time, however many timers the system under test has
\* pending before and after that point.
C12_NeverPastTarget == IsRut => now <= cfg.t0 + cfg.time

\* runAllUntilTime has returned with the clock at the target after firing
\* timers of the system under test, others of which are still pending
C12_Witness ==
  /\ IsRut /\ pc = "returned"
  /\ cfg.time > 1 /\ now = cfg.t0 + cfg.time
  /\ fired >= 2
  /\ \E tm \in timers : tm.callAt > now

IsWfc == cfg.kind = "waitForCache"

IsSbe == cfg.kind = "startBackgroundExecute"

\* a TestAdapter method called without what it needs
Misuse ==
  \/ IsSbe /\ ("clock" \notin cfg.deps \/ "mockCache" \notin cfg.deps)
  \/ IsWfc /\ ("clock" \notin cfg.deps \/ "mockCache" \notin cfg.deps)
  \/ cfg.kind = "getMetrics" /\ "metricsApi" \notin cfg.deps

\* C14: startBackgroundExecuteThenGetResponse without a clock or a mock
\* cache, waitForCache without a clock or a mock cache, and getMetrics
\* without a metrics API do nothing but throw a configuration error: no
\* request is issued, the clock is not advanced, the store is not read, and
\* the method does not return.
C14_MisuseIsConfigurationError ==
  Misuse =>
    /\ pc # "returned"
    /\ pc = "thrown" => (err = "config" /\ svCalls = 0)
    /\ fnStarts = 0 /\ nextCalls = 0 /\ tickCalls = 0
    /\ now = 0

\* the size the caller asked for: 1 when the argument is left out
ClaimedSize(e) == IF e = NoExpected THEN 1 ELSE e

\* C15: startBackgroundExecuteThenGetResponse makes its second request only
\* after the first has returned and the cache holds at least
\* expectedCacheSize entries (1 when omitted); waitForCache(expectedSize)
\* returns only when the cache holds at least expectedSize entries, and for
\* every expectedSize, 0 included, it does not advance the clock when the
\* cache already holds that many entries on entry.
C15_WaitsForExpectedSize ==
  /\ (IsSbe /\ pc = "wur_call" /\ fnStarts = 1) =>
       (ret # Undefined /\ writes >= ClaimedSize(cfg.expected))
  /\ (IsWfc /\ ~Misuse /\ pc = "returned") =>
       writes >= ClaimedSize(cfg.expected)
  /\ (IsWfc /\ ~Misuse /\ pc # "wfc_call"
        /\ entry.writes >= ClaimedSize(cfg.expected)) => nextCalls = 0

\* the last command of the chain that wrote `key`
LastQueued(key) ==
  LET js == {j \in 1..Len(promises) : promises[j].key = key}
  IN  promises[CHOOSE j \in js : \A l \in js : l <= j]

\* C13: the commands queued on the builder that multi() returned have taken
\* effect on the store one after the other in the order they were submitted
\* (each key holds the value of the last command queued for it), and exec()
\* resolves with exactly one result per queued command, in that order.
C13_BatchInSubmissionOrder ==
  /\ [](/\ Len(applied) = Len(promises)
        /\ \A j \in 1..Len(promises) :
             /\ applied[j].key = promises[j].key
             /\ applied[j].value = promises[j].value
        /\ \A k \in StoreKeys :
             (\E j \in 1..Len(promises) : promises[j].key = k) =>
               store[k].value = LastQueued(k).value)
  /\ [][(execRes' # execRes /\ execRes'.resolved) =>
          /\ Len(execRes'.results) = Len(promises)
          /\ \A j \in 1..Len(promises) :
               /\ execRes'.results[j].op = promises[j].op
               /\ execRes'.results[j].key = promises[j].key
               /\ execRes'.results[j].value = promises[j].value]_vars

\* exec() has resolved a chain of three commands, two of them on one key
C13_Witness ==
  /\ execRes.resolved
  /\ Len(execRes.results) = 3
  /\ execRes.results[1].key = execRes.results[3].key
  /\ execRes.results[1].value # execRes.results[3].value
  /\ execRes.results[2].key # execRes.results[1].key

\* the orders the labels of a line can be written in
Orders(ls) ==
  { p \in [1..Len(ls) -> {ls[j] : j \in 1..Len(ls)}] :
      \A a, b \in 1..Len(ls) : a # b => p[a] # p[b] }

\* C16: whatever order the labels of a sample line are written in, the
\* constructor stores the value under the one key the parsed line got.
C16_LabelOrderIndependence ==
  map.constructed =>
    \A p \in Orders(sample.labels) :
      /\ FullName(Render([sample EXCEPT !.labels = p])) = FullName(data[1])
      /\ FullName(data[1]) \in DOMAIN map.entries

IsApp(l) == StartsWith(l.n, <<"a", "p", "p", "_">>)

\* the labels of the line that do not carry the app_ prefix
NonApp(ls) == SelectSeq(ls, LAMBDA l : ~IsApp(l))

\* the app_ labels of the line, if any, come after all the others
AppLabelsFollow(ls) ==
  \A a, b \in 1..Len(ls) : (IsApp(ls[a]) /\ ~IsApp(ls[b])) => b < a

\* the lookup asks for exactly the labels of the sample that are not app_
AsksForSample ==
  /\ got.n > 0
  /\ got.name = sample.name
  /\ IF NonApp(sample.labels) = <<>> THEN got.labels = NoLabels
     ELSE got.labels \in Orders(NonApp(sample.labels))

\* C17: a lookup with the name of a parsed sample line and its labels other
\* than app_ ones, in any order, finds the value of the line, whether or not
\* app_ labels follow the others in the line.
C17_ParseQueryRoundTrip ==
  (map.constructed /\ AppLabelsFollow(sample.labels) /\ AsksForSample) =>
    (got.found /\ got.metric = Number(sample.value))

\* C18: a line that differs from the sample line only in the app_ labels it
\* has, their values or their places is stored under the same key.
C18_AppLabelsDoNotCount ==
  map.constructed =>
    \A other \in Samples :
      NonApp(other.labels) = NonApp(sample.labels) =>
        FullName(Render(other)) = FullName(data[1])

\* C19: a lookup of a key the map does not hold records a failure on the
\* test context and returns; the map is as it was; and the failure lists
\* exactly the keys of the map that start with the name asked for.
C19_LookupMissIsNonFatal ==
  [][(got'.n # got.n /\ ~got'.found) =>
       /\ map' = map
       /\ Len(failures') > Len(failures)
       /\ failures'[Len(failures) + 1].kind = "notFound"
       /\ failures'[Len(failures) + 1].listed =
            {k \in DOMAIN map.entries :
               Len(k) >= Len(got'.name)
                 /\ SubSeq(k, 1, Len(got'.name)) = got'.name}]_vars

\* a miss on `m` while the map holds keys of `m` and of `mm`
C19_Witness ==
  /\ got.n > 0 /\ ~got.found
  /\ got.name = <<"m">>
  /\ \E k \in got.listed : StartsWith(k, <<"m", "|">>)
  /\ \E k \in got.listed : StartsWith(k, <<"m", "m", "|">>)
  /\ failures # <<>>

RECURSIVE Dotted(_)
\* the dotted path of the reads made since makeStub('obj', ...) was called
Dotted(reads) ==
  IF reads = <<>> THEN "obj"
  ELSE Dotted(SubSeq(reads, 1, Len(reads) - 1)) \o "."
         \o (IF reads[Len(reads)].sym
               THEN "Symbol(" \o reads[Len(reads)].s \o ")"
               ELSE reads[Len(reads)].s)

\* the step is a read through the stub
IsRead == Len(path') = Len(path) + 1

\* the property read is not found on the unwrapped object, own or inherited
AbsentFromTarget ==
  LET prop == path'[Len(path')]
      own == heap[cur.val.v]
  IN  ~(prop.s \in DOMAIN own \/ prop.s \in ObjectPrototypeProps)

\* the read throws exactly when it should, and names the dotted path
ThrowsExactlyWhenAbsent ==
  LET prop == path'[Len(path')]
  IN  /\ (stubErr' # "") <=>
           (~prop.sym /\ AbsentFromTarget
              /\ prop.s \notin
                   { "$$typeof", "nodeType", "tagName", "hasAttribute",
                     "@@__IMMUTABLE_ITERABLE__@@", "@@__IMMUTABLE_RECORD__@@",
                     "toJSON", "asymmetricMatch", "then" })
      /\ stubErr' # "" =>
           stubErr' = "Property '" \o Dotted(path') \o "' does not exist"

\* what the same read gives on the unwrapped object
Unwrapped ==
  LET prop == path'[Len(path')]
      own == heap[cur.val.v]
  IN  IF prop.sym THEN UndefinedValue
      ELSE IF prop.s \in DOMAIN own THEN own[prop.s]
      ELSE IF prop.s \in ObjectPrototypeProps
        THEN FunctionValue("Object.prototype." \o prop.s)
      ELSE UndefinedValue

IsPrimitive(val) == val.t \in {"undefined", "null", "number", "string"}

SettlesWithoutValue ==
  \/ cfg.outcome.how = "reject"
  \/ cfg.outcome.how = "fulfil" /\ cfg.outcome.value = Undefined

\* C21: waitUntilResolved returns exactly when fn fulfils with a value other
\* than undefined, and then with that value; no rejection of fn reaches the
\* caller; and when fn rejects or fulfils with undefined the call never
\* returns and nextAsync is called again and again.
C21_ReturnsIffDefinedValue ==
  /\ []((IsWur /\ pc = "returned") =>
          /\ cfg.outcome.how = "fulfil"
          /\ cfg.outcome.value # Undefined
          /\ ret = cfg.outcome.value)
  /\ ((IsWur /\ cfg.outcome.how = "fulfil" /\ cfg.outcome.value # Undefined)
        => <>(pc = "returned"))
  /\ [](IsWur => (pc # "thrown" /\ err = "none"))
  /\ ((IsWur /\ SettlesWithoutValue) =>
        /\ [](pc # "returned")
        /\ <>(fnState # "pending")
        /\ []<>(clk.op = "next" /\ clk.phase = 1))

\* fn has rejected, every timer has fired, and the loop still calls nextAsync
C21_Witness ==
  /\ IsWur /\ cfg.outcome.how = "reject"
  /\ fnState = "reject" /\ result = Undefined
  /\ timers = {} /\ microQ = <<>>
  /\ clk.op = "next" /\ clk.phase = 1 /\ nextCalls >= 3
  /\ pc = "wur_await"

\* the step is a command queued on the chain
IsQueueing ==
  /\ last'.n # last.n
  /\ last'.op \in {"set", "setExternalAdapterResponse"}

\* every key a queued command wrote holds the value of the last of them
QueuedWritesApplied(st, ps) ==
  \A j \in 1..Len(ps) :
    \A l \in j..Len(ps) :
      (ps[l].key = ps[j].key /\ \A h \in (l + 1)..Len(ps) : ps[h].key # ps[j].key)
        => st[ps[j].key].value = ps[l].value

\* C22: a command queued on the chain has taken effect when the queueing
\* call returns, whether or not exec() is ever called; queueing on a key
\* that contains force-error throws from the queueing call, queues nothing
\* and leaves the store with the writes queued before it; exec() changes
\* nothing in the store and resolves.
C22_QueuedCommandsAlreadyApplied ==
  /\ [](QueuedWritesApplied(store, promises))
  /\ [][IsQueueing =>
          /\ execRes' = execRes
          /\ (last'.res = "throw") <=>
               (last'.skey \in {ForceErrorKey, ForceErrorInsideKey})
          /\ last'.res # "throw" =>
               /\ store'[last'.skey].value = last'.arg
               /\ Len(promises') = Len(promises) + 1
          /\ last'.res = "throw" =>
               /\ store' = store
               /\ promises' = promises
               /\ QueuedWritesApplied(store', promises)]_vars
  /\ [][execRes' # execRes /\ execRes'.resolved =>
          /\ store' = store
          /\ last' = last]_vars

\* queueing on a force-error key has thrown after a write of the same batch,
\* the write is in the store, and exec() has not been called
C22_Witness ==
  /\ last.op = "set" /\ last.res = "throw" /\ last.skey = ForceErrorInsideKey
  /\ Len(promises) = 1
  /\ promises[1].key = PlainKey
  /\ store[PlainKey].value = promises[1].value
  /\ ~execRes.resolved

\* the timer of sleep(time) is pending, due at the deadline
SentinelPending ==
  \E tm \in timers : tm.task = "sleep" /\ tm.callAt = cfg.t0 + cfg.time

\* C23: runAllUntilTime(clock, time), called at clock time t0 with time >= 0
\* while the system under test has finitely many timers to run, returns,
\* and returns with clock.now = t0 + time; until the clock is at the deadline
\* the timer of sleep(time) is pending at the deadline; and with time = 0 it
\* returns without having called nextAsync, fired a timer or moved the clock.
C23_ReturnsExactlyAtDeadline ==
  /\ (IsRut => <>(pc = "returned"))
  /\ []((IsRut /\ pc = "returned") => now = cfg.t0 + cfg.time)
  /\ []((IsRut /\ pc # "rut_call" /\ now < cfg.t0 + cfg.time) =>
          SentinelPending)
  /\ []((IsRut /\ cfg.time = 0) =>
          /\ now = cfg.t0
          /\ nextCalls = 0
          /\ fired = 0
          /\ clk = Idle)

\* called at time 2 with time 3, runAllUntilTime has returned at 5 after it
\* fired timers of the system under test and, last, the timer of sleep(3)
C23_Witness ==
  /\ IsRut /\ pc = "returned"
  /\ cfg.t0 = 2 /\ cfg.time = 3 /\ now = 5
  /\ fired >= 3
  /\ \A tm \in timers : tm.task # "sleep"

\* the sets made after the j-th waitForNextSet and before the next one, or
\* up to now when the j-th call is the most recent
SetsFor(j) == {l \in 1..Len(sets) : sets[l].waits = j}

\* the first of a set of set calls
FirstOf(ls) == CHOOSE l \in ls : \A h \in ls : l <= h

\* C24: in any interleaving of waitForNextSet and set calls on a MockCache,
\* every set stores its entry, waiters or not; the promise of the most
\* recent waitForNextSet is resolved with the value of the first set made
\* after the call and keeps that value through later sets; and the promise
\* of a call that was followed by another call before any set stays pending.
C24_SetNotification ==
  /\ [][Len(sets') > Len(sets) =>
          /\ mcache'[sets'[Len(sets')].key].value = sets'[Len(sets')].value
          /\ \A k \in CacheKeys : k # sets'[Len(sets')].key =>
               mcache'[k] = mcache[k]]_vars
  /\ [](waiters # <<>> =>
          LET latest == Len(waiters)
              after == {l \in 1..Len(sets) : sets[l].waits = latest}
          IN  IF after = {}
                THEN waiters[latest].state = "pending"
                ELSE /\ waiters[latest].state = "resolved"
                     /\ waiters[latest].value = sets[FirstOf(after)].value)
  /\ [](\A j \in 1..(Len(waiters) - 1) :
          SetsFor(j) = {} => waiters[j].state = "pending")
  /\ [][\A j \in 1..Len(waiters) :
          waiters[j].state = "resolved" => waiters'[j] = waiters[j]]_vars

\* the promise of the first waitForNextSet was replaced before any set and
\* is pending; the promise of the second holds the value of the first of
\* two sets with different values
C24_Witness ==
  /\ Len(waiters) = 2 /\ Len(sets) = 2
  /\ sets[1].waits = 2 /\ sets[1].value # sets[2].value
  /\ waiters[1].state = "pending"
  /\ waiters[2].state = "resolved" /\ waiters[2].value = sets[1].value
  /\ mcache[sets[2].key].value = sets[2].value

====
